---- MODULE Spec2Model ----
(***************************************************************************)
(* Styleripper: the classname counter, dead-rule eliminator, rename        *)
(* planner and tree rewriter of src/styleripper.js (variant "js") and of   *)
(* its TypeScript revision in src/unnamed/part_000 (variant "ts").         *)
(*                                                                         *)
(* Strings are sequences of one-character strings, so that the length of   *)
(* a name, the stripping of backslashes and the joining and splitting of   *)
(* a class attribute are computed and not assumed.                         *)
(***************************************************************************)
EXTENDS Integers, Sequences, FiniteSets, TLC

VARIABLES
    variant,     \* "js": src/styleripper.js, "ts": src/unnamed/part_000
    minify,      \* options.minify of the ts variant (the js variant always rewrites)
    html,        \* the HTML files of the build unit: file -> element -> classNames
    css,         \* the CSS files as parsed: file -> rule -> selector -> component
    classnames,  \* the classname -> count object, as its entries in key order
    ast,         \* the CSS trees of the files parsed so far
    sorted,      \* the ranked list
    rename,      \* the rename object
    htmlOut,     \* the class attribute of every element after the HTML rewrite
    pc,          \* the position of rip
    fi,          \* the file the current loop is at
    ruleCur,     \* cursor.next of the walk over the stylesheet's rules
    curRule,     \* the rule whose enter callback runs
    selCur,      \* cursor.next of each() over the rule's selector list
    si,          \* the index into sorted of processCSS's loop
    err,         \* the error rip threw, "none" when it did not
    gidx0,       \* generateShortestName: the argument
    gidx,        \* generateShortestName: idx
    timesOver,   \* generateShortestName: timesOver
    gres,        \* generateShortestName: the returned name
    gpc          \* generateShortestName: position

vars == <<variant, minify, html, css, classnames, ast, sorted, rename, htmlOut,
          pc, fi, ruleCur, curRule, selCur, si, err,
          gidx0, gidx, timesOver, gres, gpc>>

ripVars == <<variant, minify, html, css, classnames, ast, sorted, rename, htmlOut,
             pc, fi, ruleCur, curRule, selCur, si, err>>

genVars == <<gidx0, gidx, timesOver, gres, gpc>>

(***************************************************************************)
(* Bounds of the model.                                                    *)
(***************************************************************************)
MaxHtmlTokens == 2   \* class tokens over all HTML files of the build unit
MaxCssComps == 2     \* selector components over all CSS files of the build unit
MaxNodes == 4        \* class tokens and selector components of the build unit together
MaxIdx == 80         \* largest index given to generateShortestName on its own

(***************************************************************************)
(* Characters and names.                                                   *)
(***************************************************************************)
Backslash == "\\"
Space == " "

NameA == <<"a">>
NameXY == <<"x", "y">>
NameU == <<"u">>
NameClassnames == <<"c", "l", "a", "s", "s", "n", "a", "m", "e", "s">>
EscapedXY == <<"x", Backslash, "y">>

\* The value of the property `classnames` of the js rename object: {}
EmptyObject == <<"{}">>
\* String({}) as join() computes it
ObjectString == <<"[", "o", "b", "j", "e", "c", "t", Space, "O", "b", "j", "e", "c", "t", "]">>

\* range(97, 123).map(c => String.fromCharCode(c))
ascii == <<"a", "b", "c", "d", "e", "f", "g", "h", "i", "j", "k", "l", "m",
           "n", "o", "p", "q", "r", "s", "t", "u", "v", "w", "x", "y", "z">>

DigitChars == <<"0", "1", "2", "3", "4", "5", "6", "7", "8", "9">>

\* Number to string, as `ascii[idx] + (timesOver - 1)` converts the number
RECURSIVE NumberToString(_)
NumberToString(n) ==
    IF n < 10 THEN <<DigitChars[n + 1]>>
    ELSE NumberToString(n \div 10) \o <<DigitChars[(n % 10) + 1]>>

\* n.replace(/\\/g, '')
cleanCSSIdentifier(n) == SelectSeq(n, LAMBDA ch : ch # Backslash)

(***************************************************************************)
(* generateShortestName as an operator: the while loop unrolled.           *)
(***************************************************************************)
RECURSIVE ShortestNameLoop(_, _)
ShortestNameLoop(idx, over) ==
    IF idx >= Len(ascii) THEN ShortestNameLoop(idx - Len(ascii), over + 1)
    ELSE <<idx, over>>

\* Mutant: the round number is appended without the decrement
ShortestNameResultNoDecrement(idx, over) ==
    IF over # 0 THEN <<ascii[idx + 1]>> \o NumberToString(over)
    ELSE <<ascii[idx + 1]>>

ShortestNameResult(idx, over) ==
    IF over # 0 THEN <<ascii[idx + 1]>> \o NumberToString(over - 1)
    ELSE <<ascii[idx + 1]>>

generateShortestName(idx) ==
    LET r == ShortestNameLoop(idx, 0) IN ShortestNameResult(r[1], r[2])

(***************************************************************************)
(* The inputs: HTML files as the classNames arrays of their elements in    *)
(* document order, CSS files as rules of selectors of components.          *)
(***************************************************************************)
HtmlTokens == {NameA, NameXY, NameClassnames}

\* A flat list of class tokens, each opening a new file, a new element of
\* the last file, or continuing the class list of the last element.
FlatHtml ==
    UNION {[1..n -> HtmlTokens \X {"file", "elem", "tok"}] : n \in 0..MaxHtmlTokens}

RECURSIVE BuildHtml(_)
BuildHtml(flat) ==
    IF flat = <<>> THEN <<>>
    ELSE LET prev == BuildHtml(SubSeq(flat, 1, Len(flat) - 1))
             tok == flat[Len(flat)][1]
             b == flat[Len(flat)][2]
             nf == Len(prev)
         IN IF b = "file" \/ nf = 0 THEN Append(prev, << <<tok>> >>)
            ELSE IF b = "elem" THEN [prev EXCEPT ![nf] = Append(@, <<tok>>)]
            ELSE [prev EXCEPT ![nf][Len(prev[nf])] = Append(@, tok)]

\* The js variant takes any number of HTML files.
FlatHtmlJs == {g \in FlatHtml : g = <<>> \/ g[1][2] = "file"}

\* The ts variant builds one unit per HTML file.
FlatHtmlTs ==
    {g \in FlatHtml :
        /\ g # <<>> => g[1][2] = "file"
        /\ \A i \in 2..Len(g) : g[i][2] # "file"}

\* The HTML files of the build unit; a ts file with no class token is its
\* root node alone.
HtmlInput(v, flat) ==
    IF v = "ts" /\ flat = <<>> THEN << << <<>> >> >> ELSE BuildHtml(flat)

ClassSelector == "ClassSelector"
TypeSelector == "TypeSelector"
PseudoClassSelector == "PseudoClassSelector"

\* A component is a class-selector, a type selector, or a functional
\* pseudo-class such as :not(.u) whose argument is one class-selector;
\* `name` is the name of the class-selector node.
Components ==
    {[type |-> ClassSelector, name |-> NameA],
     [type |-> ClassSelector, name |-> EscapedXY],
     [type |-> ClassSelector, name |-> NameU],
     [type |-> TypeSelector, name |-> <<"p">>],
     [type |-> PseudoClassSelector, name |-> NameA],
     [type |-> PseudoClassSelector, name |-> NameU]}

FlatCss ==
    UNION {[1..n -> Components \X {"file", "rule", "sel", "comp"}] : n \in 0..MaxCssComps}

RECURSIVE BuildCss(_)
BuildCss(flat) ==
    IF flat = <<>> THEN <<>>
    ELSE LET prev == BuildCss(SubSeq(flat, 1, Len(flat) - 1))
             c == flat[Len(flat)][1]
             b == flat[Len(flat)][2]
             nf == Len(prev)
             nr == Len(prev[nf])
             ns == Len(prev[nf][nr])
         IN IF b = "file" \/ nf = 0 THEN Append(prev, << << <<c>> >> >>)
            ELSE IF b = "rule" THEN [prev EXCEPT ![nf] = Append(@, << <<c>> >>)]
            ELSE IF b = "sel" THEN [prev EXCEPT ![nf][nr] = Append(@, <<c>>)]
            ELSE [prev EXCEPT ![nf][nr][ns] = Append(@, c)]

FlatCssFiles == {g \in FlatCss : g = <<>> \/ g[1][2] = "file"}

(***************************************************************************)
(* Objects with string keys: entries in insertion order.                   *)
(***************************************************************************)
\* `name in obj`
HasKey(obj, name) == \E i \in 1..Len(obj) : obj[i].name = name

KeyIndex(obj, name) == CHOOSE i \in 1..Len(obj) : obj[i].name = name

Keys(obj) == {obj[i].name : i \in 1..Len(obj)}

(***************************************************************************)
(* parseHTMLNodeChildren: count each className occurrence.                 *)
(***************************************************************************)
FirstCount == 1

\* Mutant: a classname seen again is not counted again
CountClassNameOnce(cn, className) ==
    IF HasKey(cn, className) THEN cn
    ELSE Append(cn, [name |-> className, count |-> FirstCount])

CountClassName(cn, className) ==
    IF HasKey(cn, className)
    THEN [cn EXCEPT ![KeyIndex(cn, className)].count = @ + 1]
    ELSE Append(cn, [name |-> className, count |-> FirstCount])

RECURSIVE CountClassNames(_, _)
CountClassNames(cn, classNames) ==
    IF classNames = <<>> THEN cn
    ELSE CountClassNames(CountClassName(cn, Head(classNames)), Tail(classNames))

RECURSIVE parseHTMLNodeChildren(_, _)
parseHTMLNodeChildren(cn, nodes) ==
    IF nodes = <<>> THEN cn
    ELSE parseHTMLNodeChildren(CountClassNames(cn, Head(nodes)), Tail(nodes))

(***************************************************************************)
(* The CSS tree.  A children list (css-tree's List) is the sequence of     *)
(* the items it holds, an item being named by its position at parse time;  *)
(* 0 is the null item.  each() keeps a cursor to the next item, which      *)
(* remove() moves on when that item is the one removed.                    *)
(***************************************************************************)
Iota(n) == [i \in 1..n |-> i]

\* csstree.parse(data)
ParseTree(file) ==
    [list |-> Iota(Len(file)),
     rules |-> [r \in 1..Len(file) |->
                  [list |-> Iota(Len(file[r])), sels |-> file[r]]]]

InList(list, item) == \E i \in 1..Len(list) : list[i] = item

ListHead(list) == IF list = <<>> THEN 0 ELSE list[1]

\* item.next
ItemNext(list, item) ==
    LET i == CHOOSE j \in 1..Len(list) : list[j] = item
    IN IF i = Len(list) THEN 0 ELSE list[i + 1]

\* list.remove(item), for an item of the list
ListRemove(list, item) == SelectSeq(list, LAMBDA x : x # item)

\* updateCursors(item, item.prev, item, item.next) on the cursor of each()
CursorAfterRemove(cursor, list, item) ==
    IF cursor = item THEN ItemNext(list, item) ELSE cursor

\* The guard that the ts variant adds to the inner callback
EmptyListGuard(list) == variant = "ts" /\ list = <<>>

\* Mutant: the name is looked up without cleanCSSIdentifier
KeepsSelectorUncleaned(s, list) ==
    \/ s.type # ClassSelector
    \/ EmptyListGuard(list)
    \/ HasKey(classnames, s.name)

\* The class-selector test of the inner callback: TRUE when the component
\* is left alone.
KeepsSelector(s, list) ==
    \/ s.type # ClassSelector
    \/ EmptyListGuard(list)
    \/ HasKey(classnames, cleanCSSIdentifier(s.name))

\* Mutant: only the first component of the selector is looked at
PruneFirstComponent(comps, list, item) ==
    IF comps = <<>> \/ KeepsSelector(Head(comps), list)
    THEN [list |-> list, thrown |-> FALSE]
    ELSE [list |-> ListRemove(list, item), thrown |-> FALSE]

\* selector.children.each(s => ...): the selector list after the callbacks,
\* and whether list.remove(item) threw for an item no longer in the list.
RECURSIVE PruneComponents(_, _, _)
PruneComponents(comps, list, item) ==
    IF comps = <<>> THEN [list |-> list, thrown |-> FALSE]
    ELSE IF KeepsSelector(Head(comps), list)
         THEN PruneComponents(Tail(comps), list, item)
         ELSE IF ~InList(list, item)
              THEN [list |-> list, thrown |-> TRUE]
              ELSE PruneComponents(Tail(comps), ListRemove(list, item), item)

\* The class-selector nodes of a tree in the order csstree.walk visits them,
\* each as <<rule, selector, component>>.
RECURSIVE Flatten(_)
Flatten(ss) == IF ss = <<>> THEN <<>> ELSE Head(ss) \o Flatten(Tail(ss))

IsClassNode(c) == c.type \in {ClassSelector, PseudoClassSelector}

SelectorNodes(tree, r, s) ==
    LET comps == tree.rules[r].sels[s]
    IN SelectSeq([c \in 1..Len(comps) |-> <<r, s, c>>],
                 LAMBDA p : IsClassNode(comps[p[3]]))

RuleNodes(tree, r) ==
    LET l == tree.rules[r].list
    IN Flatten([i \in 1..Len(l) |-> SelectorNodes(tree, r, l[i])])

ClassSelectorNodes(tree) ==
    Flatten([i \in 1..Len(tree.list) |-> RuleNodes(tree, tree.list[i])])

NodeName(tree, p) == tree.rules[p[1]].sels[p[2]][p[3]].name

\* The counting walk of parseCSS: the counts after it, and whether it threw.
RECURSIVE CountSelectors(_, _, _)
CountSelectors(cn, tree, nodes) ==
    IF nodes = <<>> THEN [cn |-> cn, thrown |-> FALSE]
    ELSE LET name == cleanCSSIdentifier(NodeName(tree, Head(nodes)))
         IN IF ~HasKey(cn, name) THEN [cn |-> cn, thrown |-> TRUE]
            ELSE CountSelectors([cn EXCEPT ![KeyIndex(cn, name)].count = @ + 1],
                                tree, Tail(nodes))

(***************************************************************************)
(* The ranked list: entries mapped to {name, total}, sorted by             *)
(* b.total - a.total with Array.prototype.sort, which is stable.           *)
(***************************************************************************)
Total(entry) == Len(entry.name) * entry.count

\* Mutant: an entry goes before the entries of equal total
InsertRankedBeforeTies(s, e) ==
    LET k == Cardinality({i \in 1..Len(s) : s[i].total > e.total})
    IN SubSeq(s, 1, k) \o <<e>> \o SubSeq(s, k + 1, Len(s))

InsertRanked(s, e) ==
    LET k == Cardinality({i \in 1..Len(s) : s[i].total >= e.total})
    IN SubSeq(s, 1, k) \o <<e>> \o SubSeq(s, k + 1, Len(s))

RECURSIVE SortByTotal(_)
SortByTotal(s) ==
    IF s = <<>> THEN <<>>
    ELSE InsertRanked(SortByTotal(SubSeq(s, 1, Len(s) - 1)), s[Len(s)])

sortedNames(cn) ==
    SortByTotal([i \in 1..Len(cn) |-> [name |-> cn[i].name, total |-> Total(cn[i])]])

(***************************************************************************)
(* The rename object and the two rewrite passes.                           *)
(***************************************************************************)
NoEntries == [k \in {} |-> <<>>]

\* const rename = { classnames: {} } (js), let rename = {} (ts)
RenameInit(v) ==
    IF v = "js" THEN [k \in {NameClassnames} |-> EmptyObject] ELSE NoEntries

Put(obj, key, value) ==
    [k \in DOMAIN obj \cup {key} |-> IF k = key THEN value ELSE obj[k]]

\* Mutant: the loop index is never incremented
RenameIndexStuck(i) == i - i

\* The index processCSS gives to generateShortestName for sorted[i]
\* (i counts from 1 here, the loop index from 0).
RenameIndex(i) == i - 1

\* The nodes one walk of processCSS renames: those whose clean name is sel.name
Matches(tree, name) ==
    {p \in {ClassSelectorNodes(tree)[j] : j \in 1..Len(ClassSelectorNodes(tree))} :
        cleanCSSIdentifier(NodeName(tree, p)) = name}

RenameNodes(tree, nodes, newname) ==
    [tree EXCEPT !.rules =
        [r \in DOMAIN tree.rules |->
            [tree.rules[r] EXCEPT !.sels =
                [s \in DOMAIN tree.rules[r].sels |->
                    [c \in DOMAIN tree.rules[r].sels[s] |->
                        IF <<r, s, c>> \in nodes
                        THEN [tree.rules[r].sels[s][c] EXCEPT !.name = newname]
                        ELSE tree.rules[r].sels[s][c]]]]]]

\* String(value), as join() converts the elements of `replace`
ValueToString(v) == IF v = EmptyObject THEN ObjectString ELSE v

RECURSIVE Join(_)
Join(values) ==
    IF values = <<>> THEN <<>>
    ELSE IF Len(values) = 1 THEN ValueToString(values[1])
    ELSE ValueToString(Head(values)) \o <<Space>> \o Join(Tail(values))

\* classNames.map(c => c in rename ? rename[c] : c)
Replace(ren, classNames) ==
    [i \in 1..Len(classNames) |->
        IF classNames[i] \in DOMAIN ren THEN ren[classNames[i]] ELSE classNames[i]]

\* The class attribute of a node after processHTMLNodeChildren; a node with
\* no class token keeps having none.
RewrittenClass(ren, classNames) ==
    IF Len(Replace(ren, classNames)) > 0 THEN Join(Replace(ren, classNames)) ELSE <<>>

processHTMLNodeChildren(ren, nodes) ==
    [e \in 1..Len(nodes) |-> RewrittenClass(ren, nodes[e])]

(***************************************************************************)
(* rip.                                                                    *)
(***************************************************************************)
PcParseCSS == IF Len(css) > 0 THEN "parseCSS" ELSE "sort"

PcProcessHTML == IF Len(html) > 0 THEN "processHTML" ELSE "done"

GenIdle ==
    /\ gidx0 = 0
    /\ gidx = 0
    /\ timesOver = 0
    /\ gres = <<>>
    /\ gpc = "idle"

Init ==
    /\ variant \in {"js", "ts"}
    /\ \E fh \in (IF variant = "js" THEN FlatHtmlJs ELSE FlatHtmlTs) :
         \E fc \in FlatCssFiles :
            /\ Len(fh) + Len(fc) <= MaxNodes
            /\ html = HtmlInput(variant, fh)
            /\ css = BuildCss(fc)
    /\ minify = TRUE
    /\ classnames = <<>>
    /\ rename = RenameInit(variant)
    /\ ast = <<>>
    /\ sorted = <<>>
    /\ htmlOut = <<>>
    /\ pc = (IF Len(html) > 0 THEN "parseHTML" ELSE PcParseCSS)
    /\ fi = 1
    /\ ruleCur = 0
    /\ curRule = 0
    /\ selCur = 0
    /\ si = 1
    /\ err = "none"
    /\ GenIdle

\* htmlFiles.forEach(f => { f.ast = parseHTML(classnames, f.data) })
ParseHTML ==
    /\ pc = "parseHTML"
    /\ classnames' = parseHTMLNodeChildren(classnames, html[fi])
    /\ IF fi < Len(html)
       THEN fi' = fi + 1 /\ pc' = pc
       ELSE fi' = 1 /\ pc' = PcParseCSS
    /\ UNCHANGED <<variant, minify, html, css, ast, sorted, rename, htmlOut,
                   ruleCur, curRule, selCur, si, err>>
    /\ UNCHANGED genVars

\* parseCSS: csstree.parse(data) and the start of the walk over the rules
ParseCSS ==
    /\ pc = "parseCSS"
    /\ ast' = Append(ast, ParseTree(css[fi]))
    /\ ruleCur' = ListHead(ParseTree(css[fi]).list)
    /\ curRule' = 0
    /\ selCur' = 0
    /\ pc' = "prune"
    /\ UNCHANGED <<variant, minify, html, css, classnames, sorted, rename, htmlOut,
                   fi, si, err>>
    /\ UNCHANGED genVars

\* The walk reaches the next rule: enter() starts each() over its selectors
EnterRule ==
    /\ pc = "prune"
    /\ selCur = 0
    /\ ruleCur # 0
    /\ curRule' = ruleCur
    /\ ruleCur' = ItemNext(ast[fi].list, ruleCur)
    /\ selCur' = ListHead(ast[fi].rules[ruleCur].list)
    /\ UNCHANGED <<variant, minify, html, css, classnames, ast, sorted, rename,
                   htmlOut, pc, fi, si, err>>
    /\ UNCHANGED genVars

\* One callback of each() over the selector list: the inner each() over the
\* selector's components, then the removal of the rule when the list is empty
PruneSelector ==
    /\ pc = "prune"
    /\ selCur # 0
    /\ LET tree == ast[fi]
           list == tree.rules[curRule].list
           item == selCur
           next == ItemNext(list, item)
           res == PruneComponents(tree.rules[curRule].sels[item], list, item)
       IN IF res.thrown
          THEN /\ pc' = "error"
               /\ err' = "item doesn't belong to list"
               /\ ast' = [ast EXCEPT ![fi].rules[curRule].list = res.list]
               /\ UNCHANGED <<selCur, ruleCur>>
          ELSE /\ selCur' = (IF InList(res.list, item) THEN next
                             ELSE CursorAfterRemove(next, list, item))
               /\ IF res.list = <<>>
                  THEN IF InList(tree.list, curRule)
                       THEN /\ ast' = [ast EXCEPT ![fi].rules[curRule].list = res.list,
                                                  ![fi].list = ListRemove(tree.list, curRule)]
                            /\ ruleCur' = CursorAfterRemove(ruleCur, tree.list, curRule)
                            /\ UNCHANGED <<pc, err>>
                       ELSE /\ pc' = "error"
                            /\ err' = "item doesn't belong to list"
                            /\ ast' = [ast EXCEPT ![fi].rules[curRule].list = res.list]
                            /\ UNCHANGED ruleCur
                  ELSE /\ ast' = [ast EXCEPT ![fi].rules[curRule].list = res.list]
                       /\ UNCHANGED <<pc, err, ruleCur>>
    /\ UNCHANGED <<variant, minify, html, css, classnames, sorted, rename, htmlOut,
                   fi, curRule, si>>
    /\ UNCHANGED genVars

\* The second walk of parseCSS: increment the count of every class selector
CountCSS ==
    /\ pc = "prune"
    /\ selCur = 0
    /\ ruleCur = 0
    /\ LET res == CountSelectors(classnames, ast[fi], ClassSelectorNodes(ast[fi]))
       IN /\ classnames' = res.cn
          /\ IF res.thrown
             THEN /\ pc' = "error"
                  /\ err' = "encountered unused class selector"
                  /\ UNCHANGED fi
             ELSE /\ err' = err
                  /\ IF fi < Len(css)
                     THEN fi' = fi + 1 /\ pc' = "parseCSS"
                     ELSE fi' = 1 /\ pc' = "sort"
    /\ UNCHANGED <<variant, minify, html, css, ast, sorted, rename, htmlOut,
                   ruleCur, curRule, selCur, si>>
    /\ UNCHANGED genVars

\* The ranked list; the ts variant rewrites only when options.minify is set,
\* which it reads here for the first time.
Sort ==
    /\ pc = "sort"
    /\ sorted' = sortedNames(classnames)
    /\ \E m \in BOOLEAN :
        /\ variant = "js" => m
        /\ minify' = m
        /\ pc' = IF ~m THEN "done"
                 ELSE IF Len(ast) > 0 /\ Len(classnames) > 0 THEN "processCSS"
                 ELSE PcProcessHTML
    /\ fi' = 1
    /\ si' = 1
    /\ UNCHANGED <<variant, html, css, classnames, ast, rename, htmlOut,
                   ruleCur, curRule, selCur, err>>
    /\ UNCHANGED genVars

\* processCSS: one iteration of the loop over sorted, on the tree of file fi
RenameWalk ==
    /\ pc = "processCSS"
    /\ LET name == sorted[si].name
           nodes == Matches(ast[fi], name)
           newname == generateShortestName(RenameIndex(si))
       IN /\ ast' = [ast EXCEPT ![fi] = RenameNodes(@, nodes, newname)]
          /\ rename' = IF nodes # {} THEN Put(rename, name, newname) ELSE rename
    /\ IF si < Len(sorted)
       THEN si' = si + 1 /\ UNCHANGED <<fi, pc>>
       ELSE /\ si' = 1
            /\ IF fi < Len(ast)
               THEN fi' = fi + 1 /\ pc' = pc
               ELSE fi' = 1 /\ pc' = PcProcessHTML
    /\ UNCHANGED <<variant, minify, html, css, classnames, sorted, htmlOut,
                   ruleCur, curRule, selCur, err>>
    /\ UNCHANGED genVars

\* htmlFiles.map(f => { processHTMLNodeChildren(rename, f.ast) ... })
ProcessHTML ==
    /\ pc = "processHTML"
    /\ htmlOut' = Append(htmlOut, processHTMLNodeChildren(rename, html[fi]))
    /\ IF fi < Len(html)
       THEN fi' = fi + 1 /\ pc' = pc
       ELSE fi' = 1 /\ pc' = "done"
    /\ UNCHANGED <<variant, minify, html, css, classnames, ast, sorted, rename,
                   ruleCur, curRule, selCur, si, err>>
    /\ UNCHANGED genVars

Next ==
    \/ ParseHTML
    \/ ParseCSS
    \/ EnterRule
    \/ PruneSelector
    \/ CountCSS
    \/ Sort
    \/ RenameWalk
    \/ ProcessHTML

Spec == Init /\ [][Next]_vars

(***************************************************************************)
(* generateShortestName on its own, one loop iteration per step.           *)
(***************************************************************************)
GenInit ==
    /\ variant = "js"
    /\ minify = TRUE
    /\ html = <<>>
    /\ css = <<>>
    /\ classnames = <<>>
    /\ rename = RenameInit("js")
    /\ ast = <<>>
    /\ sorted = <<>>
    /\ htmlOut = <<>>
    /\ pc = "idle"
    /\ fi = 1
    /\ ruleCur = 0
    /\ curRule = 0
    /\ selCur = 0
    /\ si = 1
    /\ err = "none"
    /\ gidx0 \in 0..MaxIdx
    /\ gidx = gidx0
    /\ timesOver = 0
    /\ gres = <<>>
    /\ gpc = "loop"

\* while (idx >= ascii.length) { timesOver++; idx -= ascii.length }
GenLoop ==
    /\ gpc = "loop"
    /\ gidx >= Len(ascii)
    /\ timesOver' = timesOver + 1
    /\ gidx' = gidx - Len(ascii)
    /\ UNCHANGED <<gidx0, gres, gpc>>
    /\ UNCHANGED ripVars

\* The two return statements
GenReturn ==
    /\ gpc = "loop"
    /\ ~(gidx >= Len(ascii))
    /\ gres' = ShortestNameResult(gidx, timesOver)
    /\ gpc' = "done"
    /\ UNCHANGED <<gidx0, gidx, timesOver>>
    /\ UNCHANGED ripVars

GenNext == GenLoop \/ GenReturn

SpecGen == GenInit /\ [][GenNext]_vars /\ WF_vars(GenNext)

(***************************************************************************)
(* What the properties speak of.                                           *)
(***************************************************************************)
\* The class tokens of the HTML input, as <<file, element, position>>
HtmlPositions ==
    UNION {UNION {{<<f, e, i>> : i \in 1..Len(html[f][e])} : e \in 1..Len(html[f])} :
             f \in 1..Len(html)}

HtmlToken(q) == html[q[1]][q[2]][q[3]]

HtmlNames == {HtmlToken(q) : q \in HtmlPositions}

\* The class-selector nodes still in the tree of file f, and in all trees
SurvivingIn(f) ==
    {ClassSelectorNodes(ast[f])[j] : j \in 1..Len(ClassSelectorNodes(ast[f]))}

Surviving == UNION {{<<f, p>> : p \in SurvivingIn(f)} : f \in 1..Len(ast)}

\* The clean identifier a node had when its file was parsed
OriginalName(f, p) == cleanCSSIdentifier(css[f][p[1]][p[2]][p[3]].name)

SurvivingNames == {OriginalName(x[1], x[2]) : x \in Surviving}

\* The whitespace-separated tokens of a class attribute
RECURSIVE SplitFrom(_, _, _)
SplitFrom(chars, cur, acc) ==
    IF chars = <<>> THEN (IF cur = <<>> THEN acc ELSE Append(acc, cur))
    ELSE IF Head(chars) = Space
         THEN SplitFrom(Tail(chars), <<>>, IF cur = <<>> THEN acc ELSE Append(acc, cur))
         ELSE SplitFrom(Tail(chars), Append(cur, Head(chars)), acc)

Split(attr) == SplitFrom(attr, <<>>, <<>>)

\* The class list of element e of file f in the HTML output
OutputTokens(f, e) ==
    IF f <= Len(htmlOut) /\ html[f][e] # <<>> THEN Split(htmlOut[f][e]) ELSE html[f][e]

\* rip has returned, having rewritten CSS and HTML
Rewritten == pc = "done" /\ minify

\* The pruning walk over the tree of file f has run to its end
PruneDone(f) ==
    /\ f \in 1..Len(ast)
    /\ \/ f < Len(ast)
       \/ pc \in {"parseCSS", "sort", "processCSS", "processHTML", "done"}
       \/ pc = "prune" /\ selCur = 0 /\ ruleCur = 0
       \/ err = "encountered unused class selector"

\* All CSS and HTML files are parsed and counted
AllParsed == pc \in {"sort", "processCSS", "processHTML", "done"}

IsShortName(v) == v # EmptyObject

(***************************************************************************)
(* C1.  CSS and HTML are rewritten with identical substitutions: after rip *)
(* every class-selector whose original clean identifier c survives carries *)
(* rename[c] in the output CSS, and every HTML token that was c is         *)
(* rename[c] in the output HTML, also when an original classname equals a  *)
(* generated short name.                                                   *)
(***************************************************************************)
C1_IdenticalSubstitutions ==
    Rewritten =>
        \A c \in SurvivingNames :
            /\ c \in DOMAIN rename
            /\ \A x \in Surviving :
                 OriginalName(x[1], x[2]) = c => NodeName(ast[x[1]], x[2]) = rename[c]
            /\ \A q \in HtmlPositions :
                 HtmlToken(q) = c =>
                    /\ Len(OutputTokens(q[1], q[2])) = Len(html[q[1]][q[2]])
                    /\ OutputTokens(q[1], q[2])[q[3]] = rename[c]

(***************************************************************************)
(* C2.  Invariant I2: in every state, and at the end of rip, the rename    *)
(* map is injective, for any number of CSS files.                          *)
(***************************************************************************)
C2_RenameInjective ==
    \A k1 \in DOMAIN rename : \A k2 \in DOMAIN rename :
        k1 # k2 => rename[k1] # rename[k2]

C2_TwoFilesTwoNames ==
    /\ pc = "done"
    /\ Len(ast) >= 2
    /\ \E k1 \in DOMAIN rename : \E k2 \in DOMAIN rename :
        /\ k1 # k2
        /\ IsShortName(rename[k1])
        /\ IsShortName(rename[k2])

(***************************************************************************)
(* C3.  Invariant I1: after the pruning walk of parseCSS every             *)
(* class-selector still in the tree, nested ones included, has a clean     *)
(* identifier that is a key of the classname mapping, so the counting walk *)
(* never raises 'encountered unused class selector'.                       *)
(***************************************************************************)
C3_PrunedTreeKnown ==
    /\ \A x \in Surviving :
         PruneDone(x[1]) => HasKey(classnames, OriginalName(x[1], x[2]))
    /\ err # "encountered unused class selector"

(***************************************************************************)
(* C4.  A classname of the HTML that is in no surviving CSS class-selector *)
(* has no entry in the rename map after the CSS rewrite, and each of its   *)
(* occurrences in the HTML output is the original token.                   *)
(***************************************************************************)
C4_HtmlOnlyUntouched ==
    Rewritten =>
        \A c \in HtmlNames \ SurvivingNames :
            /\ c \notin DOMAIN rename
            /\ \A q \in HtmlPositions :
                 HtmlToken(q) = c =>
                    /\ Len(OutputTokens(q[1], q[2])) = Len(html[q[1]][q[2]])
                    /\ OutputTokens(q[1], q[2])[q[3]] = c

(***************************************************************************)
(* C5.  HTML round-trip: the rewritten class list of every element has as  *)
(* many tokens as the original, in the same order, the token at each       *)
(* position being rename[t] when the original token t is a key of the      *)
(* completed map and t otherwise.                                          *)
(***************************************************************************)
C5_HtmlRoundTrip ==
    \A q \in HtmlPositions :
        q[1] <= Len(htmlOut) =>
            /\ Len(OutputTokens(q[1], q[2])) = Len(html[q[1]][q[2]])
            /\ OutputTokens(q[1], q[2])[q[3]] =
                  (IF HtmlToken(q) \in DOMAIN rename
                   THEN rename[HtmlToken(q)] ELSE HtmlToken(q))

ExpectedName(i) ==
    IF i <= 25 THEN <<ascii[i + 1]>>
    ELSE <<ascii[(i % 26) + 1]>> \o NumberToString((i \div 26) - 1)

C6_Returned ==
    gpc = "done" =>
        /\ gres = ExpectedName(gidx0)
        /\ gidx0 = 26 => gres = <<"a", "0">>
        /\ gidx0 = 51 => gres = <<"z", "0">>
        /\ gidx0 = 52 => gres = <<"a", "1">>
        /\ \A j \in 0..MaxIdx : j # gidx0 => generateShortestName(j) # gres
        /\ generateShortestName(gidx0) = gres

(***************************************************************************)
(* C6.  generateShortestName: index i in 0..25 yields letter number i of   *)
(* a..z, index i >= 26 yields letter number (i mod 26) followed by the     *)
(* decimal number (i div 26) - 1, so that 26 gives a0, 51 gives z0 and 52  *)
(* gives a1; distinct indices give distinct names; the loop terminates.    *)
(***************************************************************************)
C6_ShortestName == []C6_Returned /\ <>(gpc = "done")

C6_SecondRound == gpc = "done" /\ gidx0 = 52 /\ timesOver = 2 /\ gres = <<"a", "1">>

Weight(name) == Len(name) * classnames[KeyIndex(classnames, name)].count

\* The classnames the CSS rewrite has given an entry
Assigned == {k \in DOMAIN rename : IsShortName(rename[k])}

\* The example of the claim: counts x:10 and longname:3
ExampleCounts ==
    <<[name |-> <<"x">>, count |-> 10],
      [name |-> <<"l", "o", "n", "g", "n", "a", "m", "e">>, count |-> 3]>>

ExampleRanked ==
    /\ sortedNames(ExampleCounts) =
          <<[name |-> <<"l", "o", "n", "g", "n", "a", "m", "e">>, total |-> 24],
            [name |-> <<"x">>, total |-> 10]>>
    /\ generateShortestName(RenameIndex(1)) = <<"a">>
    /\ generateShortestName(RenameIndex(2)) = <<"b">>

SingleClass(sel) == Len(sel) = 1 /\ sel[1].type = ClassSelector

NoClass(sel) == \A c \in 1..Len(sel) : sel[c].type # ClassSelector

\* The known set: the classnames of the HTML
Known(name) == cleanCSSIdentifier(name) \in HtmlNames

(***************************************************************************)
(* C8.  Dead-rule elimination on selector lists: of a rule whose selectors *)
(* are single class-selectors, exactly the selectors naming a class absent *)
(* from the known set are removed, the others keeping their order, and the *)
(* rule is removed iff all its selectors were; a selector with no          *)
(* class-selector component is never removed, nor is a rule that has one.  *)
(***************************************************************************)
C8_SelectorListPruning ==
    \A f \in 1..Len(ast) : \A r \in 1..Len(css[f]) :
        LET rule == css[f][r]
            list == ast[f].rules[r].list
        IN /\ (PruneDone(f) /\ \A s \in 1..Len(rule) : SingleClass(rule[s])) =>
                /\ list = SelectSeq(Iota(Len(rule)), LAMBDA s : Known(rule[s][1].name))
                /\ InList(ast[f].list, r) <=> list # <<>>
           /\ \A s \in 1..Len(rule) :
                NoClass(rule[s]) => InList(list, s) /\ InList(ast[f].list, r)

\* .a, .u with only a known: the rule is left with .a
C8_UsedAndUnused ==
    \E f \in 1..Len(ast) : \E r \in 1..Len(css[f]) :
        /\ PruneDone(f)
        /\ Len(css[f][r]) = 2
        /\ \A s \in 1..2 : SingleClass(css[f][r][s])
        /\ Known(css[f][r][1][1].name)
        /\ ~Known(css[f][r][2][1].name)
        /\ ast[f].rules[r].list = <<1>>
        /\ InList(ast[f].list, r)

HtmlOccurrences(c) == Cardinality({q \in HtmlPositions : HtmlToken(q) = c})

CssOccurrences(c) == Cardinality({x \in Surviving : OriginalName(x[1], x[2]) = c})

(***************************************************************************)
(* C9.  Counting: when all files are parsed, the count of a classname is   *)
(* the number of its occurrences over all class attributes of the HTML     *)
(* plus the number of surviving class-selectors with that clean            *)
(* identifier over all CSS trees.                                          *)
(***************************************************************************)
C9_Counts ==
    (AllParsed /\ Len(ast) = Len(css)) =>
        /\ Keys(classnames) = HtmlNames
        /\ SurvivingNames \subseteq Keys(classnames)
        /\ \A i \in 1..Len(classnames) :
             classnames[i].count =
                HtmlOccurrences(classnames[i].name) + CssOccurrences(classnames[i].name)

\* class="a a" in one element and a surviving selector for the same name
C9_RepeatedTokenAndSelector ==
    /\ pc = "sort"
    /\ \E f \in 1..Len(html) : \E e \in 1..Len(html[f]) :
         /\ Len(html[f][e]) = 2
         /\ html[f][e][1] = html[f][e][2]
         /\ CssOccurrences(html[f][e][1]) >= 1
         /\ classnames[KeyIndex(classnames, html[f][e][1])].count >= 3

HasUnknownClass(sel) ==
    \E c \in 1..Len(sel) : sel[c].type = ClassSelector /\ ~Known(sel[c].name)

HasKeptComponent(sel) ==
    \E c \in 1..Len(sel) : sel[c].type # ClassSelector \/ Known(sel[c].name)

(***************************************************************************)
(* C10.  Component-level pruning as claimed: a selector holding an unknown *)
(* class-selector component next to a component that is kept stays in the  *)
(* rule's selector list.                                                   *)
(***************************************************************************)
C10_ComponentRemoved ==
    \A f \in 1..Len(ast) : \A r \in 1..Len(css[f]) : \A s \in 1..Len(css[f][r]) :
        (PruneDone(f) /\ HasUnknownClass(css[f][r][s]) /\ HasKeptComponent(css[f][r][s]))
            => InList(ast[f].rules[r].list, s)

(***************************************************************************)
(* C10, amended.  No component is removed from a selector: a selector      *)
(* holding an unknown class-selector component is removed whole from the   *)
(* rule's selector list, whatever its other components; after a pruning    *)
(* walk that ran to its end a selector is in the list exactly when none of *)
(* its class-selector components is unknown.                               *)
(***************************************************************************)
C10_SelectorRemoved ==
    \A f \in 1..Len(ast) : \A r \in 1..Len(css[f]) : \A s \in 1..Len(css[f][r]) :
        /\ Len(ast[f].rules[r].sels[s]) = Len(css[f][r][s])
        /\ \A c \in 1..Len(css[f][r][s]) :
             ast[f].rules[r].sels[s][c].type = css[f][r][s][c].type
        /\ PruneDone(f) =>
             (InList(ast[f].rules[r].list, s) <=> ~HasUnknownClass(css[f][r][s]))

\* p.u next to a kept selector: the selector is gone, the rule stays
C10_CompoundRemoved ==
    \E f \in 1..Len(ast) : \E r \in 1..Len(css[f]) : \E s \in 1..Len(css[f][r]) :
        /\ PruneDone(f)
        /\ HasUnknownClass(css[f][r][s])
        /\ HasKeptComponent(css[f][r][s])
        /\ ~InList(ast[f].rules[r].list, s)

\* list.remove(item) was called for an item that the list no longer holds
RemovedTwice == err = "item doesn't belong to list"

(***************************************************************************)
(* C11.  Exactly-once pruning: during the pruning walk no selector entry   *)
(* is removed from its selector list a second time and no rule is removed  *)
(* from its parent list a second time, also when a selector has two or     *)
(* more class-selector components that are all unknown, alone in its rule  *)
(* or next to other selectors; the walk visits every selector and is never *)
(* cut short by a removal of an entry that is already gone.                *)
(***************************************************************************)
C11_RemovedAtMostOnce ==
    /\ ~RemovedTwice
    /\ \A f \in 1..Len(ast) : \A r \in 1..Len(css[f]) : \A s \in 1..Len(css[f][r]) :
         (PruneDone(f) /\ ~HasUnknownClass(css[f][r][s]))
            => InList(ast[f].rules[r].list, s)

\* What the HTML rewrite makes of the class token t
EffectiveName(t) == RewrittenClass(rename, <<t>>)

(***************************************************************************)
(* C12.  Renaming never merges two classes: after rip, two distinct        *)
(* classnames of the HTML are distinct in the HTML output (rename[t] for a *)
(* mapped token, t itself for an unmapped one, is injective over the       *)
(* classnames of the HTML), and two class-selectors of the CSS with        *)
(* distinct original clean identifiers have distinct names in the CSS      *)
(* output, also when an original classname equals a short name given to    *)
(* another classname.                                                      *)
(***************************************************************************)
C12_NeverMerges ==
    Rewritten =>
        /\ \A t1 \in HtmlNames : \A t2 \in HtmlNames :
             t1 # t2 => EffectiveName(t1) # EffectiveName(t2)
        /\ \A x \in Surviving : \A y \in Surviving :
             OriginalName(x[1], x[2]) # OriginalName(y[1], y[2])
                => NodeName(ast[x[1]], x[2]) # NodeName(ast[y[1]], y[2])

====
